---- MODULE Spec2Model ----
(***************************************************************************)
(* Model of the metric-evaluation and retry core of the market-confidence  *)
(* notifier: BaseMetric.calculate/_fallback (src/metrics/base_metric.py),  *)
(* run, calculate_confidence_score and run_and_retry (src/main.py) and the *)
(* error-notification path (src/api/notifications.py and its wrappers).    *)
(*                                                                         *)
(* Numbers: a metric value v is kept in tenths (0.2 is 2, 1.0 is 10), so   *)
(* clip(0, 1) is a clip to 0..10.  A missing value (pandas NaN) is the     *)
(* empty tuple and a present value v is the one-element tuple <<v>>.  A    *)
(* mean is kept exact, as the pair [num, den] of its sum and its count.    *)
(***************************************************************************)
EXTENDS Integers, Sequences, FiniteSets, TLC

(* ------------------------------ bounds --------------------------------- *)

\* Largest max_attempts argument of run_and_retry that is explored.
MaxAttempts == 4

\* Dates are 1..MaxDate in a pipeline run (the price series is an ascending
\* sequence of some of them).
MaxDate == 1

\* Number of registered metrics in a pipeline run.
NumMetrics == 2

\* Dates are 1..FbMaxDate where one calculate call is explored on its own.
FbMaxDate == 4

\* Number of metric columns and of dates where the aggregation is explored
\* on its own.
AggMetrics == 3

AggDates == 1

(* ------------------------------ values --------------------------------- *)

\* pandas NaN: the missing value.
NaN == <<>>

\* A present value.
Some(v) == <<v>>

\* Raw values a formula or the provider can yield where one calculate call is
\* explored on its own, in tenths: missing, below 0, inside [0,1], above 1.
RawValues == {NaN, Some(-5), Some(5), Some(15)}

\* Raw values in a whole pipeline run under run_and_retry: below 0, above 1
\* (and missing, for the provider).
RunValues == {NaN, Some(-5), Some(15)}

\* Values of already clipped columns where the aggregation is explored on its
\* own: missing, 0, 0.2, 0.8.
ClippedValues == {NaN, Some(0), Some(2), Some(8)}

\* All series of length n over the values S.
SeriesOf(S, n) == [1..n -> S]

\* The strictly ascending date sequences over 1..d (a PriceSeries' Date
\* column: ascending, no duplicates), the empty one included.
DateColumns(d) ==
  {s \in UNION {[1..k -> 1..d] : k \in 0..d} :
     \A i \in 1..(Len(s) - 1) : s[i] < s[i + 1]}

\* The (Date, Value) frames the fallback provider can return over the dates
\* 1..d and the values V: at most one row per date, the value possibly missing.
ProviderFrames(d, V) ==
  UNION {{{<<x, f[x]>> : x \in S} : f \in [S -> V]} : S \in SUBSET (1..d)}

\* What a request to the fallback provider can come to: the service answers
\* with a frame, or it is unreachable.
ProviderResponses(d, V) ==
  {[reachable |-> TRUE, frame |-> fr] : fr \in ProviderFrames(d, V)}
    \cup {[reachable |-> FALSE, frame |-> {}]}

(* --------------------------- Series.clip ------------------------------- *)

\* A mutation of clip: the upper bound only.
clip_upper_only(s, lo, hi) ==
  [i \in 1..Len(s) |->
     IF s[i] = NaN THEN NaN
     ELSE IF s[i][1] > hi THEN Some(hi) ELSE s[i]]

\* Series.clip(lo, hi): NaN stays NaN, every other value is moved into
\* [lo, hi].
clip(s, lo, hi) ==
  [i \in 1..Len(s) |->
     IF s[i] = NaN THEN NaN
     ELSE IF s[i][1] < lo THEN Some(lo)
     ELSE IF s[i][1] > hi THEN Some(hi)
     ELSE s[i]]

\* df_bitcoin[name] = series: the column takes the frame's n row labels;
\* a label the series lacks becomes NaN, a label the frame lacks is dropped.
setitem(n, s) == [i \in 1..n |-> IF i <= Len(s) THEN s[i] ELSE NaN]

(* ----------------------- BaseMetric._fallback -------------------------- *)

\* The fallback provider (api.cbbiinfo_api.cbbi_fetch): the (Date, Value)
\* frame of the metric; an unreachable service yields the empty frame.
cbbi_fetch(response) == IF response.reachable THEN response.frame ELSE {}

\* A mutation of merge_left: an inner join, which drops the unmatched dates.
merge_inner(dates, frame) ==
  LET F[k \in 0..Len(dates)] ==
        IF k = 0 THEN <<>>
        ELSE LET rows == {r \in frame : r[1] = dates[k]}
             IN  IF rows = {} THEN F[k - 1]
                 ELSE Append(F[k - 1], (CHOOSE r \in rows : TRUE)[2])
  IN  F[Len(dates)]

\* df.merge(frame, on='Date', how='left')['Value']: one row per date of df,
\* in df's order; the frame's value for that date, NaN where it has no row.
merge_left(dates, frame) ==
  [i \in 1..Len(dates) |->
     LET rows == {r \in frame : r[1] = dates[i]}
     IN  IF rows = {} THEN NaN ELSE (CHOOSE r \in rows : TRUE)[2]]

\* A mutation of ffill: a backward fill after the forward fill, so a leading
\* NaN takes the first value after it.
ffill_bfill(s) ==
  LET F[k \in 0..Len(s)] ==
        IF k = 0 THEN <<>>
        ELSE Append(F[k - 1],
                    IF s[k] # NaN THEN s[k]
                    ELSE IF k = 1 THEN NaN
                    ELSE F[k - 1][k - 1])
      f == F[Len(s)]
      B[k \in 1..(Len(s) + 1)] ==
        IF k = Len(s) + 1 THEN <<>>
        ELSE <<IF f[k] # NaN THEN f[k]
               ELSE IF k = Len(s) THEN NaN
               ELSE B[k + 1][1]>> \o B[k + 1]
  IN  B[1]

\* Series.ffill(): a NaN takes the last value before it, if there is one.
ffill(s) ==
  LET F[k \in 0..Len(s)] ==
        IF k = 0 THEN <<>>
        ELSE Append(F[k - 1],
                    IF s[k] # NaN THEN s[k]
                    ELSE IF k = 1 THEN NaN
                    ELSE F[k - 1][k - 1])
  IN  F[Len(s)]

\* BaseMetric._fallback(df): merge, forward fill, return the Value column.
fallback(dates, response) == ffill(merge_left(dates, cbbi_fetch(response)))

(* ----------------------- BaseMetric.calculate ------------------------- *)

\* What one call of a metric's own formula can do on a frame of n rows: return
\* a series over the frame's rows with values of V, or raise.
CalculateOutcomes(n, V) ==
  {[raises |-> FALSE, series |-> s] : s \in SeriesOf(V, n)}
    \cup {[raises |-> TRUE, series |-> <<>>]}

\* What the per-metric error notification can come to.
NotifyOutcomes == {"delivered", "not_delivered", "raised"}

\* utils.send_error_notification(ex): the notification collaborator as
\* calculate sees it.  Its delivery error reaches the call site.
utils_send_error_notification(outcome) ==
  [raised |-> outcome = "raised", delivered |-> outcome = "delivered"]

\* The response slot of a call that made no request to the provider.
NoResponse == [reachable |-> FALSE, frame |-> {}]

\* BaseMetric.calculate(df, ax).  The record tells how the call ended
\* (raised, value) and what it did on the way.
calculate(dates, calc, notify, response) ==
  IF ~calc.raises
  THEN \* line 33: return self._calculate(df, ax)
       [raised |-> FALSE, value |-> calc.series, calc_raised |-> FALSE,
        dispatches |-> 0, notify |-> "none", fallback_calls |-> 0,
        response |-> NoResponse]
  ELSE \* lines 34-38: except Exception as ex
       IF utils_send_error_notification(notify).raised
       THEN \* line 36 raises inside the handler: the call ends there
            [raised |-> TRUE, value |-> <<>>, calc_raised |-> TRUE,
             dispatches |-> 1, notify |-> notify, fallback_calls |-> 0,
             response |-> NoResponse]
       ELSE [raised |-> FALSE, value |-> fallback(dates, response),
             calc_raised |-> TRUE, dispatches |-> 1, notify |-> notify,
             fallback_calls |-> 1, response |-> response]

\* No call of calculate made yet in this run.
NoCall ==
  [raised |-> FALSE, value |-> <<>>, calc_raised |-> FALSE, dispatches |-> 0,
   notify |-> "none", fallback_calls |-> 0, response |-> NoResponse]

(* -------------------- calculate_confidence_score ----------------------- *)

\* The sum of the present values of the columns cols[1..k] at row i.
RECURSIVE row_sum(_, _, _)
row_sum(cols, i, k) ==
  IF k = 0 THEN 0
  ELSE row_sum(cols, i, k - 1) + (IF cols[k][i] = NaN THEN 0 ELSE cols[k][i][1])

\* The number of present values of the columns cols[1..k] at row i.
RECURSIVE row_count(_, _, _)
row_count(cols, i, k) ==
  IF k = 0 THEN 0
  ELSE row_count(cols, i, k - 1) + (IF cols[k][i] = NaN THEN 0 ELSE 1)

\* A mutation of the mean: NaN counted as 0, so the divisor is the number of
\* columns.
mean_nan_as_zero(cols, n) ==
  [i \in 1..n |->
     IF Len(cols) = 0 THEN NaN
     ELSE Some([num |-> row_sum(cols, i, Len(cols)), den |-> Len(cols)])]

\* df[cols].mean(axis=1): row by row, the mean of the values that are not NaN
\* (skipna), NaN for a row with none.
calculate_confidence_score(cols, n) ==
  [i \in 1..n |->
     IF row_count(cols, i, Len(cols)) = 0 THEN NaN
     ELSE Some([num |-> row_sum(cols, i, Len(cols)),
                den |-> row_count(cols, i, Len(cols))])]

(* ---------------------- notification channels -------------------------- *)

\* What a Telegram send can come to: sent, a TelegramError, or another
\* exception.
TelegramOutcomes == {"ok", "TelegramError", "Exception"}

\* What a SendGrid send can come to: accepted, a status outside 200..202, or
\* an exception.
EmailOutcomes == {"ok", "bad_status", "Exception"}

\* telegram_wrapper.send_text -> send: a TelegramError is caught and printed,
\* any other exception leaves send.
send_text(outcome) ==
  [raised |-> outcome = "Exception", delivered |-> outcome = "ok"]

\* sendgrid_wrapper.send_message: True when accepted; a bad status and any
\* exception give False.
send_message(outcome) == [raised |-> FALSE, delivered |-> outcome = "ok"]

\* A mutation of try_except: no handler, the exception goes on.
no_try_except(r) == r

\* try: ... except Exception as e: print(...): the block ends normally.
try_except(r) == [r EXCEPT !.raised = FALSE]

\* notifications.send_error_notification(error_message): Telegram in its own
\* try block, then e-mail in its own try block.
send_error_notification(tg, em) ==
  LET t == try_except(send_text(tg))
      e == IF t.raised THEN [raised |-> TRUE, delivered |-> FALSE]
           ELSE try_except(send_message(em))
  IN  [raised |-> t.raised \/ e.raised,
       telegram |-> tg,
       email |-> IF t.raised THEN "none" ELSE em,
       delivered |-> t.delivered \/ e.delivered]

\* No whole-run error notification dispatched in this attempt.
NoNotification ==
  [raised |-> FALSE, telegram |-> "none", email |-> "none", delivered |-> FALSE]

\* A mutation of send_market_update: one try block around both channels, so
\* an exception of the Telegram send skips the e-mail.
send_market_update_one_try(tg, em) ==
  LET t == send_text(tg)
      e == IF t.raised THEN [raised |-> FALSE, delivered |-> FALSE]
           ELSE send_message(em)
  IN  [raised |-> FALSE,
       telegram |-> tg,
       email |-> IF t.raised THEN "none" ELSE em,
       delivered |-> t.delivered \/ e.delivered]

\* notifications.send_market_update: Telegram in its own try block, then
\* e-mail in its own try block.
send_market_update(tg, em) ==
  LET t == try_except(send_text(tg))
      e == IF t.raised THEN [raised |-> TRUE, delivered |-> FALSE]
           ELSE try_except(send_message(em))
  IN  [raised |-> t.raised \/ e.raised,
       telegram |-> tg,
       email |-> IF t.raised THEN "none" ELSE em,
       delivered |-> t.delivered \/ e.delivered]

(* ----------------------------- the state ------------------------------ *)

VARIABLES
  pc,                  \* where run_and_retry (and the run it wraps) stands
  max_attempts,        \* run_and_retry's argument
  attempt,             \* the loop variable of "for attempt in range(max_attempts)"
  exit_status,         \* NotExited, or the status the process ended with
  exc,                 \* the exception on its way to run_and_retry's handler
  error_message,       \* traceback.format_exc() of the failure being handled
  df_dates,            \* the Date column of df_bitcoin in this run
  columns,             \* the metric columns stored so far, in metrics_cols order
  confidence,          \* the Confidence column of df_result
  market_update,       \* what send_market_update did in this run
  last_call,           \* what the latest BaseMetric.calculate call of the loop did
  metric_failures,     \* metrics of this run whose own formula raised
  last_notification,   \* what the whole-run error notification of this attempt did
  runs,                \* pipeline runs started
  failures,            \* pipeline runs that raised
  successes,           \* pipeline runs that returned
  error_notifications, \* whole-run error notifications dispatched
  delays               \* inter-attempt delays performed

vars ==
  <<pc, max_attempts, attempt, exit_status, exc, error_message, df_dates,
    columns, confidence, market_update, last_call, metric_failures,
    last_notification, runs, failures, successes, error_notifications, delays>>

\* The frame of run().
frame_vars == <<df_dates, columns, confidence>>

\* The counters of run_and_retry's loop.
counters == <<runs, failures, successes, error_notifications, delays>>

\* The process has not ended.
NotExited == <<>>

\* The status the operating system reports for exit(n): n modulo 256.
ExitCode(n) == n % 256

\* The state at the "for" line with max_attempts = n, nothing run yet.
InitWith(n) ==
  /\ pc = "for"
  /\ max_attempts = n
  /\ attempt = 0
  /\ exit_status = NotExited
  /\ exc = "none"
  /\ error_message = "none"
  /\ df_dates = <<>>
  /\ columns = <<>>
  /\ confidence = <<>>
  /\ market_update = NoNotification
  /\ last_call = NoCall
  /\ metric_failures = 0
  /\ last_notification = NoNotification
  /\ runs = 0
  /\ failures = 0
  /\ successes = 0
  /\ error_notifications = 0
  /\ delays = 0

\* run_and_retry entered with max_attempts > 0 (the assert of line 203).
Init == \E n \in 1..MaxAttempts : InitWith(n)

(* ------------------------ run_and_retry: the loop ---------------------- *)

\* for attempt in range(max_attempts): the next attempt begins.  What the
\* attempt before left behind (error_message, the notification's outcome) is
\* never read again.
StartAttempt ==
  /\ pc = "for"
  /\ attempt < max_attempts
  /\ pc' = "fetch"
  /\ runs' = runs + 1
  /\ error_message' = "none"
  /\ last_notification' = NoNotification
  /\ last_call' = NoCall
  /\ metric_failures' = 0
  /\ UNCHANGED <<max_attempts, attempt, exit_status, exc, frame_vars,
                 market_update, failures, successes, error_notifications,
                 delays>>

\* A mutation of Exhausted: the final exit(-1) is missing, run_and_retry falls
\* off its end and the process ends with status 0.
ExhaustedExitZero ==
  /\ pc = "for"
  /\ attempt >= max_attempts
  /\ pc' = "exited"
  /\ exit_status' = Some(ExitCode(0))
  /\ UNCHANGED <<max_attempts, attempt, exc, error_message, frame_vars,
                 market_update, last_call, metric_failures, last_notification,
                 counters>>

\* The range is used up: lines 224-226, exit(-1).
Exhausted ==
  /\ pc = "for"
  /\ attempt >= max_attempts
  /\ pc' = "exited"
  /\ exit_status' = Some(ExitCode(-1))
  /\ UNCHANGED <<max_attempts, attempt, exc, error_message, frame_vars,
                 market_update, last_call, metric_failures, last_notification,
                 counters>>

\* A mutation of Raise: the handler of run_and_retry is too narrow for the
\* error, which leaves run_and_retry and ends the process with a traceback.
RaiseUncaught(kind) ==
  /\ pc' = "raised"
  /\ exc' = kind
  /\ exit_status' = Some(ExitCode(1))
  /\ failures' = failures + 1
  /\ df_dates' = <<>>
  /\ columns' = <<>>
  /\ confidence' = <<>>
  /\ metric_failures' = 0
  /\ UNCHANGED <<max_attempts, attempt, error_message, market_update,
                 last_notification, runs, successes, error_notifications,
                 delays>>

\* An exception leaves run(): the frame of run() is gone and control is in
\* the except clause of run_and_retry.
Raise(kind) ==
  /\ pc' = "except"
  /\ exc' = kind
  /\ failures' = failures + 1
  /\ df_dates' = <<>>
  /\ columns' = <<>>
  /\ confidence' = <<>>
  /\ metric_failures' = 0
  /\ UNCHANGED <<max_attempts, attempt, exit_status, error_message,
                 market_update, last_notification, runs, successes,
                 error_notifications, delays>>

(* ------------------------------- run() --------------------------------- *)

\* Lines 78-81: fetch the price frame over the dates 1..d and read its last
\* price.  The fetch can raise; an empty frame makes values[0] raise.
Fetch(d) ==
  /\ pc = "fetch"
  /\ UNCHANGED last_call
  /\ \E ok \in BOOLEAN, dates \in DateColumns(d) :
       IF ~ok THEN Raise("fetch")
       ELSE IF dates = <<>> THEN Raise("IndexError")
       ELSE /\ df_dates' = dates
            /\ pc' = "metrics"
            /\ UNCHANGED <<max_attempts, attempt, exit_status, exc,
                           error_message, columns, confidence, market_update,
                           metric_failures, last_notification, counters>>

\* Lines 110-114, one turn of the loop over the m metrics: calculate the next
\* metric (values of V, provider dates 1..d), clip it to [0,1] and store it as
\* a column.  The notification's outcome is drawn only if the formula raises,
\* the provider's response only if the fallback is reached.
Calculate(d, m, V) ==
  /\ pc = "metrics"
  /\ Len(columns) < m
  /\ \E calc \in CalculateOutcomes(Len(df_dates), V) :
     \E notify \in IF calc.raises THEN NotifyOutcomes ELSE {"none"} :
     \E response \in IF calc.raises /\ notify # "raised"
                      THEN ProviderResponses(d, V) ELSE {NoResponse} :
       LET r == calculate(df_dates, calc, notify, response) IN
       /\ last_call' = r
       /\ IF r.raised THEN Raise("notification")
          ELSE /\ columns' =
                    Append(columns, setitem(Len(df_dates), clip(r.value, 0, 10)))
               /\ pc' = IF Len(columns) + 1 = m THEN "aggregate" ELSE "metrics"
               /\ metric_failures' =
                    metric_failures + (IF r.calc_raised THEN 1 ELSE 0)
               /\ UNCHANGED <<max_attempts, attempt, exit_status, exc,
                              error_message, df_dates, confidence,
                              market_update, last_notification, counters>>

\* Lines 136-139: the Confidence column.  Nothing guards these lines: an
\* exception raised in them leaves run().
Aggregate ==
  /\ pc = "aggregate"
  /\ \E ok \in BOOLEAN :
       IF ~ok THEN Raise("aggregate") /\ last_call' = NoCall
       ELSE /\ confidence' = calculate_confidence_score(columns, Len(df_dates))
            /\ pc' = "to_json"
            /\ UNCHANGED <<max_attempts, attempt, exit_status, exc,
                           error_message, df_dates, columns, market_update,
                           last_call, metric_failures, last_notification,
                           counters>>

\* Line 140: write the result document; the write can raise.  The metrics
\* loop is behind: its latest call is no longer told.
ToJson ==
  /\ pc = "to_json"
  /\ last_call' = NoCall
  /\ \E ok \in BOOLEAN :
       IF ~ok THEN Raise("to_json")
       ELSE /\ pc' = "publish"
            /\ UNCHANGED <<max_attempts, attempt, exit_status, exc,
                           error_message, frame_vars, market_update,
                           metric_failures, last_notification, counters>>

\* Lines 148-172: send the market update, print the summary.
Publish ==
  /\ pc = "publish"
  /\ UNCHANGED last_call
  /\ \E tg \in TelegramOutcomes, em \in EmailOutcomes :
       LET r == send_market_update(tg, em) IN
       IF r.raised THEN Raise("market_update")
       ELSE /\ market_update' = r
            /\ pc' = "returned"
            /\ UNCHANGED <<max_attempts, attempt, exit_status, exc,
                           error_message, frame_vars, metric_failures,
                           last_notification, counters>>

(* ------------------ run_and_retry: success and failure ----------------- *)

\* A mutation of ExitSuccess: the SystemExit of exit(0) is caught by the
\* handler (a bare except), so a run that returned counts as a failure.
ExitSuccessCaught ==
  /\ pc = "returned"
  /\ successes' = successes + 1
  /\ pc' = "except"
  /\ exc' = "SystemExit"
  /\ failures' = failures + 1
  /\ df_dates' = <<>>
  /\ columns' = <<>>
  /\ confidence' = <<>>
  /\ UNCHANGED <<max_attempts, attempt, exit_status, error_message,
                 market_update, last_call, metric_failures, last_notification,
                 runs, error_notifications, delays>>

\* Lines 208-209: asyncio.run(run(...)) returned; exit(0).  SystemExit is no
\* Exception, so the handler of line 211 lets it through and the process ends
\* (its frames with it).
ExitSuccess ==
  /\ pc = "returned"
  /\ successes' = successes + 1
  /\ pc' = "exited"
  /\ exit_status' = Some(ExitCode(0))
  /\ df_dates' = <<>>
  /\ columns' = <<>>
  /\ confidence' = <<>>
  /\ UNCHANGED <<max_attempts, attempt, exc, error_message, market_update,
                 last_call, metric_failures, last_notification, runs, failures,
                 error_notifications, delays>>

\* Lines 211-217: record the traceback, dispatch the whole-run error
\* notification.  Were the dispatch to raise, run_and_retry would raise and
\* the process end with the status of an uncaught exception.
Except ==
  /\ pc = "except"
  /\ \E tg \in TelegramOutcomes, em \in EmailOutcomes :
       LET r == send_error_notification(tg, em) IN
       /\ error_message' = exc
       /\ exc' = "none"
       /\ last_notification' = r
       /\ error_notifications' = error_notifications + 1
       /\ IF r.raised
          THEN pc' = "raised" /\ exit_status' = Some(ExitCode(1))
          ELSE pc' = "delay" /\ UNCHANGED exit_status
  /\ UNCHANGED <<max_attempts, attempt, frame_vars, market_update, last_call,
                 metric_failures, runs, failures, successes, delays>>

\* A mutation of ShouldSleep: the delay is made after the last attempt too.
ShouldSleepAlways(a, n) == a < n

\* Line 219: if attempt < max_attempts - 1.
ShouldSleep(a, n) == a < n - 1

\* Lines 219-222 and the loop's step: the delay unless this was the last
\* attempt, then the next value of the range.
Delay ==
  /\ pc = "delay"
  /\ delays' = IF ShouldSleep(attempt, max_attempts) THEN delays + 1 ELSE delays
  /\ attempt' = attempt + 1
  /\ pc' = "for"
  /\ UNCHANGED <<max_attempts, exit_status, exc, error_message, frame_vars,
                 market_update, last_call, metric_failures, last_notification,
                 runs, failures, successes, error_notifications>>

(* --------------------------- specifications ---------------------------- *)

\* run_and_retry and the pipeline runs it makes.
Next ==
  \/ StartAttempt
  \/ Exhausted
  \/ Fetch(MaxDate)
  \/ Calculate(MaxDate, NumMetrics, RunValues)
  \/ Aggregate
  \/ ToJson
  \/ Publish
  \/ ExitSuccess
  \/ Except
  \/ Delay

Spec == Init /\ [][Next]_vars

\* One metric evaluated on its own: the first attempt of a run of one metric
\* stands at the metrics loop, with a price frame over some of the dates
\* 1..FbMaxDate.
InitCalculate ==
  \E dates \in DateColumns(FbMaxDate) \ {<<>>} :
    /\ pc = "metrics"
    /\ max_attempts = 1
    /\ attempt = 0
    /\ exit_status = NotExited
    /\ exc = "none"
    /\ error_message = "none"
    /\ df_dates = dates
    /\ columns = <<>>
    /\ confidence = <<>>
    /\ market_update = NoNotification
    /\ last_call = NoCall
    /\ metric_failures = 0
    /\ last_notification = NoNotification
    /\ runs = 1
    /\ failures = 0
    /\ successes = 0
    /\ error_notifications = 0
    /\ delays = 0

NextCalculate ==
  \/ Calculate(FbMaxDate, 1, RawValues)
  \/ Aggregate

SpecCalculate == InitCalculate /\ [][NextCalculate]_vars

\* The aggregation on its own: the first attempt of a run of AggMetrics
\* metrics stands behind the metrics loop, with AggDates dates and any
\* clipped columns.
InitAggregate ==
  \E cols \in [1..AggMetrics -> SeriesOf(ClippedValues, AggDates)] :
    /\ pc = "aggregate"
    /\ max_attempts = 1
    /\ attempt = 0
    /\ exit_status = NotExited
    /\ exc = "none"
    /\ error_message = "none"
    /\ df_dates = [i \in 1..AggDates |-> i]
    /\ columns = cols
    /\ confidence = <<>>
    /\ market_update = NoNotification
    /\ last_call = NoCall
    /\ metric_failures = 0
    /\ last_notification = NoNotification
    /\ runs = 1
    /\ failures = 0
    /\ successes = 0
    /\ error_notifications = 0
    /\ delays = 0

NextAggregate == Aggregate

SpecAggregate == InitAggregate /\ [][NextAggregate]_vars

(* ------------------------------ claims --------------------------------- *)

\* The pipeline run of the current attempt is under way.
InRun == pc \in {"fetch", "metrics", "aggregate", "to_json", "publish", "returned"}

\* The largest element of a non-empty set of integers.
SetMax(S) == CHOOSE x \in S : \A y \in S : y <= x

\* The sum of f over the finite set S.
RECURSIVE SumOver(_, _)
SumOver(S, f) ==
  IF S = {} THEN 0
  ELSE LET x == CHOOSE y \in S : TRUE IN f[x] + SumOver(S \ {x}, f)

\* C1: once a pipeline run has returned, after k runs that raised, the
\* process has ended with status 0, k < max_attempts, there were exactly k + 1
\* runs, k whole-run failure notifications and k delays, and nothing more can
\* happen.
C1_SuccessAfterKFailures ==
  successes >= 1 =>
    /\ pc = "exited"
    /\ exit_status = Some(0)
    /\ successes = 1
    /\ failures < max_attempts
    /\ runs = failures + 1
    /\ error_notifications = failures
    /\ delays = failures
    /\ ~ENABLED Next

\* C1, the case of the specification: max_attempts = 3, the runs 1 and 2
\* raised, run 3 returned.
C1_Witness ==
  /\ max_attempts = 3
  /\ failures = 2
  /\ successes = 1
  /\ runs = 3
  /\ error_notifications = 2
  /\ delays = 2
  /\ pc = "exited"
  /\ exit_status = Some(0)

\* C2: while every run so far has raised, a delay was made after each failure
\* but the max_attempts-th; once max_attempts runs have raised there were
\* exactly max_attempts runs and max_attempts - 1 delays, the only step left
\* is exit(-1), and the process ends with a status that is not 0.
C2_ExhaustedAfterNFailures ==
  (successes = 0 /\ pc \in {"for", "exited"}) =>
    /\ runs = failures
    /\ delays = IF failures < max_attempts THEN failures ELSE max_attempts - 1
    /\ failures = max_attempts =>
         /\ delays = max_attempts - 1
         /\ pc = "for" => ENABLED Exhausted /\ ~ENABLED StartAttempt
         /\ pc = "exited" => exit_status = Some(255) /\ ~ENABLED Next
    /\ pc = "exited" => failures = max_attempts

\* C2, the case of the specification: max_attempts = 4, every run raised.
C2_Witness ==
  /\ max_attempts = 4
  /\ failures = 4
  /\ runs = 4
  /\ delays = 3
  /\ pc = "exited"
  /\ exit_status = Some(255)

\* C3: calculate never raises.
C3_CalculateNeverRaises == ~last_call.raised

\* C4: a call whose formula raised called the fallback once, returned the
\* fallback's result and dispatched one notification; a call whose formula
\* returned did neither.
C4_FallbackAndOneDispatch ==
  /\ last_call.calc_raised =>
       /\ last_call.dispatches = 1
       /\ last_call.fallback_calls = 1
       /\ ~last_call.raised
       /\ last_call.value = fallback(df_dates, last_call.response)
  /\ ~last_call.calc_raised =>
       /\ last_call.dispatches = 0
       /\ last_call.fallback_calls = 0

\* The provider's frame has a value for the date x.
HasValue(frame, x) == \E r \in frame : r[1] = x /\ r[2] # NaN

\* The provider's value for the date x.
ValueAt(frame, x) == (CHOOSE r \in frame : r[1] = x /\ r[2] # NaN)[2]

\* C5: the fallback result has one entry per date of the price frame; the
\* entry of a date is the provider's value of the nearest date of the frame,
\* at or before it, for which the provider has a value, and is missing if
\* there is no such date (so the dates before the first one with a value stay
\* missing).
C5_ForwardFillNoBackfill ==
  last_call.fallback_calls = 1 =>
    LET frame == cbbi_fetch(last_call.response)
        value == last_call.value
    IN  /\ Len(value) = Len(df_dates)
        /\ \A i \in 1..Len(df_dates) :
             LET prior == {j \in 1..i : HasValue(frame, df_dates[j])}
             IN  value[i] = IF prior = {} THEN NaN
                            ELSE ValueAt(frame, df_dates[SetMax(prior)])

\* C5: a fallback result with a leading date left missing, a later date that
\* keeps its own value and, after it, a date without a provider value that
\* took the preceding one.
C5_Witness ==
  /\ last_call.fallback_calls = 1
  /\ \E i, j, k \in 1..Len(df_dates) :
       /\ i < j /\ j < k
       /\ last_call.value[i] = NaN
       /\ HasValue(cbbi_fetch(last_call.response), df_dates[j])
       /\ ~HasValue(cbbi_fetch(last_call.response), df_dates[k])
       /\ last_call.value[k] = last_call.value[j]
       /\ last_call.value[k] # NaN

\* C6: after the aggregation, the confidence of a date is missing if every
\* metric is missing there, and otherwise it is the sum of the present values
\* divided by their number; the values 0.2, 0.8 and missing give 0.5.
C6_MeanOfPresentValues ==
  pc = "to_json" =>
    /\ Len(confidence) = Len(df_dates)
    /\ \A i \in 1..Len(df_dates) :
         LET present == {k \in 1..Len(columns) : columns[k][i] # NaN}
             v == [k \in present |-> columns[k][i][1]]
         IN  /\ present = {} => confidence[i] = NaN
             /\ present # {} =>
                  /\ confidence[i] # NaN
                  /\ confidence[i][1].den > 0
                  /\ confidence[i][1].num * Cardinality(present)
                       = confidence[i][1].den * SumOver(present, v)
             /\ ({columns[k][i] : k \in 1..Len(columns)} = {Some(2), Some(8), NaN}
                   /\ Cardinality(present) = 2)
                  => confidence[i][1].num = 5 * confidence[i][1].den

\* C6, the case of the specification: 0.2, 0.8 and missing aggregated to 0.5.
C6_Witness ==
  /\ pc = "to_json"
  /\ Len(columns) = 3
  /\ columns[1][1] = Some(2)
  /\ columns[2][1] = Some(8)
  /\ columns[3][1] = NaN
  /\ confidence[1] # NaN
  /\ confidence[1][1].num = 5 * confidence[1][1].den

\* C6: a date where every metric is missing has a missing confidence.
C6_AllMissingWitness ==
  /\ pc = "to_json"
  /\ \A k \in 1..Len(columns) : columns[k][1] = NaN
  /\ confidence[1] = NaN

\* C7: every stored metric column has one entry per date of the price frame
\* and each entry is missing or lies in [0, 1].
C7_StoredColumnsInUnitRange ==
  \A k \in 1..Len(columns) :
    /\ DOMAIN columns[k] = 1..Len(df_dates)
    /\ \A i \in 1..Len(df_dates) :
         \/ columns[k][i] = NaN
         \/ /\ columns[k][i][1] >= 0
            /\ columns[k][i][1] <= 10

\* C7: a stored column that came from the fallback, with a value below 0
\* stored as 0 and a value above 1 stored as 1.
C7_Witness ==
  /\ Len(columns) = 1
  /\ last_call.fallback_calls = 1
  /\ \E i, j \in 1..Len(df_dates) :
       /\ last_call.value[i] = Some(-5) /\ columns[1][i] = Some(0)
       /\ last_call.value[j] = Some(15) /\ columns[1][j] = Some(10)

\* C7: a stored column that came from the metric's own formula, with a value
\* above 1 stored as 1 and a value inside [0, 1] kept.
C7_DirectWitness ==
  /\ Len(columns) = 1
  /\ ~last_call.calc_raised
  /\ \E i, j \in 1..Len(df_dates) :
       /\ last_call.value[i] = Some(15) /\ columns[1][i] = Some(10)
       /\ last_call.value[j] = Some(5) /\ columns[1][j] = Some(5)

\* C8: run_and_retry never raises; whatever the whole-run notifications did,
\* each failed run has had exactly one dispatch, the loop variable is the
\* number of failed runs handled, and the number of runs is the number of
\* runs that raised or returned (plus the one under way), at most
\* max_attempts.
C8_NotificationFailureIsolated ==
  /\ pc # "raised"
  /\ error_notifications = failures - (IF pc = "except" THEN 1 ELSE 0)
  /\ attempt = failures - (IF pc \in {"except", "delay"} THEN 1 ELSE 0)
  /\ runs = failures + successes + (IF InRun THEN 1 ELSE 0)
  /\ runs <= max_attempts

\* C8: the notification of the first failed attempt failed on both channels
\* with exceptions, and the loop went on to its next turn.
C8_Witness ==
  /\ pc = "for"
  /\ attempt = 1
  /\ runs = 1
  /\ max_attempts >= 2
  /\ last_notification.telegram = "Exception"
  /\ last_notification.email = "Exception"
  /\ ~last_notification.delivered

\* C9: a call whose formula raised and whose notification failed still
\* returned the fallback's result.
C9_NotificationFailureKeepsFallback ==
  (last_call.calc_raised /\ last_call.notify \in {"not_delivered", "raised"}) =>
    /\ ~last_call.raised
    /\ last_call.fallback_calls = 1
    /\ last_call.value = fallback(df_dates, last_call.response)

C11_FailureStatusIffExhausted ==
  /\ exit_status # NotExited <=> pc = "exited"
  /\ pc = "exited" =>
       /\ exit_status \in {Some(0), Some(255)}
       /\ exit_status # Some(0) <=> (failures = max_attempts /\ successes = 0)
       /\ exit_status = Some(0) <=> (successes = 1 /\ failures < max_attempts)
  /\ successes >= 1 => exit_status = Some(0)
  /\ (pc = "for" /\ failures = max_attempts) =>
       ENABLED Exhausted /\ ~ENABLED StartAttempt

\* C11: two runs out of two raised and the process ended with status 255.
C11_Witness ==
  /\ pc = "exited"
  /\ max_attempts = 2
  /\ failures = 2
  /\ successes = 0
  /\ exit_status = Some(255)

\* C11: the last run of the budget returned after two that raised, and the
\* process ended with status 0.
C11_LastAttemptWitness ==
  /\ pc = "exited"
  /\ max_attempts = 3
  /\ failures = 2
  /\ successes = 1
  /\ exit_status = Some(0)
  /\ market_update # NoNotification

\* C12: a metric whose formula raised has no effect on the outcome of its
\* run: the call of calculate returns, no attempt fails because of a metric's
\* failure (no such error is caught or reported by run_and_retry), a run in
\* which formulas raised has caused no failure, no whole-run notification and
\* no delay and, if it ended the process, ended it with status 0, and the
\* loop evaluates every metric before the aggregation.
C12_MetricFailureAbsorbed ==
  /\ last_call.calc_raised => ~last_call.raised
  /\ exc # "notification"
  /\ error_message # "notification"
  /\ metric_failures > 0 =>
       /\ failures = attempt
       /\ error_notifications = attempt
       /\ delays = attempt
       /\ last_notification = NoNotification
       /\ pc = "exited" => exit_status = Some(0)
  /\ pc \in {"aggregate", "to_json", "publish", "returned"} =>
       Len(columns) = NumMetrics

\* C12, the absorbed case: every formula of the first run raised, each
\* per-metric notification returned, and the run ended the process with
\* status 0 with no failure, whole-run notification or delay.
C12_AbsorbedReached ==
  /\ pc = "exited"
  /\ exit_status = Some(0)
  /\ metric_failures = NumMetrics
  /\ runs = 1
  /\ failures = 0
  /\ error_notifications = 0
  /\ delays = 0

\* The errors that leave run(): the price fetch (or the read of the last
\* price), the aggregation, the write of the output document.
PipelineErrors == {"fetch", "IndexError", "aggregate", "to_json"}

\* C13: an error that leaves run() is caught by run_and_retry and by nothing
\* else, and never leaves run_and_retry.  Caught, it makes the current attempt
\* the next failure, with the process still running; the handler then records
\* the error and dispatches one whole-run failure notification for it; after
\* that the loop either starts the next attempt, afresh, or, with the
\* attempts used up, exits.
C13_PipelineErrorCaughtAtRetry ==
  /\ pc # "raised"
  /\ exc # "none" <=> pc = "except"
  /\ (pc = "except" /\ exc \in PipelineErrors) =>
       /\ runs = attempt + 1
       /\ failures = attempt + 1
       /\ error_notifications = attempt
       /\ successes = 0
       /\ exit_status = NotExited
       /\ ENABLED Except
  /\ (pc = "delay" /\ error_message \in PipelineErrors) =>
       /\ failures = attempt + 1
       /\ error_notifications = attempt + 1
       /\ last_notification # NoNotification
       /\ ~last_notification.raised
       /\ exit_status = NotExited
       /\ ENABLED Delay
  /\ (pc = "for" /\ error_message \in PipelineErrors) =>
       /\ failures = attempt
       /\ error_notifications = attempt
       /\ attempt < max_attempts => ENABLED StartAttempt /\ ~ENABLED Exhausted
       /\ attempt = max_attempts => ENABLED Exhausted /\ ~ENABLED StartAttempt
  /\ pc = "fetch" =>
       /\ runs = attempt + 1
       /\ error_message = "none"
       /\ df_dates = <<>> /\ columns = <<>> /\ confidence = <<>>

\* C13, an output-write failure: the second run of three raised in to_json,
\* the error was recorded and notified, and the third attempt can start.
C13_Witness ==
  /\ pc = "for"
  /\ max_attempts = 3
  /\ attempt = 2
  /\ error_message = "to_json"
  /\ last_notification # NoNotification
  /\ error_notifications = 2
  /\ ENABLED StartAttempt

\* C13, a price fetch failure caught and notified.
C13_FetchWitness ==
  pc = "delay" /\ error_message = "fetch" /\ error_notifications = attempt + 1

\* C13, an aggregation failure on the last attempt: the loop is exhausted.
C13_AggregateWitness ==
  /\ pc = "for"
  /\ error_message = "aggregate"
  /\ attempt = max_attempts
  /\ ENABLED Exhausted

\* C14: where a notification is dispatched (the market update at the end of a
\* run, the error notification in the handler of run_and_retry), for every
\* pair of outcomes of the Telegram and the e-mail send the call returns to
\* its caller with the e-mail send attempted; every notification made did so;
\* no attempt fails because of the market update, and a run whose market
\* update has been dispatched, delivered or not, has returned and ends the
\* process with status 0.
C14_DeliveryBestEffort ==
  /\ pc = "publish" =>
       \A tg \in TelegramOutcomes, em \in EmailOutcomes :
         LET r == send_market_update(tg, em) IN
         ~r.raised /\ r.telegram = tg /\ r.email = em
  /\ pc = "except" =>
       \A tg \in TelegramOutcomes, em \in EmailOutcomes :
         LET r == send_error_notification(tg, em) IN
         ~r.raised /\ r.telegram = tg /\ r.email = em
  /\ market_update # NoNotification =>
       /\ ~market_update.raised
       /\ market_update.telegram \in TelegramOutcomes
       /\ market_update.email \in EmailOutcomes
       /\ pc \in {"returned", "exited"}
       /\ failures = attempt
       /\ pc = "returned" => ENABLED ExitSuccess
       /\ pc = "exited" => exit_status = Some(0) /\ successes = 1
  /\ last_notification # NoNotification =>
       /\ ~last_notification.raised
       /\ last_notification.telegram \in TelegramOutcomes
       /\ last_notification.email \in EmailOutcomes
  /\ exc # "market_update"
  /\ error_message # "market_update"
  /\ pc = "returned" => market_update # NoNotification

\* C14: the market update of the first run failed on both channels with
\* exceptions, the e-mail having been tried after Telegram's, and the run
\* ended the process with status 0.
C14_Witness ==
  /\ pc = "exited"
  /\ exit_status = Some(0)
  /\ runs = 1
  /\ failures = 0
  /\ market_update.telegram = "Exception"
  /\ market_update.email = "Exception"
  /\ ~market_update.delivered
  /\ ~market_update.raised

\* C14, the error notification: a Telegram exception, then the e-mail
\* delivered.
C14_ErrorNotificationWitness ==
  /\ pc = "delay"
  /\ last_notification.telegram = "Exception"
  /\ last_notification.email = "ok"
  /\ last_notification.delivered

====
